---- MODULE Spec2Model ----
(***************************************************************************)
(* Model of surf_chat: the MCP tool server (mcp.py) and the Gradio         *)
(* report pipeline (gradio.py).  Python values are tagged records          *)
(* [t |-> tag, v |-> payload]; coordinates are scaled by 10^4 so that      *)
(* -38.3667 is -383667.  An await on the HTTP client is a point where the  *)
(* coroutine is suspended: the request is issued by one action and its     *)
(* response is consumed by the next.                                       *)
(***************************************************************************)
EXTENDS Integers, Sequences, FiniteSets, TLC

VARIABLES program, call, context_store, ui, calls, listed

vars == <<program, call, context_store, ui, calls, listed>>

----------------------------------------------------------------------------
(* Bounds of the model *)

MaxSeriesLen == 30
MaxClock == 1
MaxResults == 4

(* Program constants *)

HourlyLimit == 24
GeocodeTake == 3

----------------------------------------------------------------------------
(* Python / JSON values *)

None == [t |-> "none", v |-> 0]
Null == [t |-> "null", v |-> 0]
Absent == [t |-> "absent", v |-> 0]
Num(n) == [t |-> "num", v |-> n]
Str(s) == [t |-> "str", v |-> s]
List(s) == [t |-> "list", v |-> s]
Obj(f) == [t |-> "obj", v |-> f]
EmptyDict == Obj(<<>>)
EmptyList == List(<<>>)
NA == Str("N/A")

Min(a, b) == IF a < b THEN a ELSE b

(* result of evaluating a Python expression: a value or a raised exception *)
Ok(x) == [ok |-> TRUE, v |-> x]
Err(e) == [ok |-> FALSE, v |-> Str(e)]

(* d.get(k, default): only a dict has .get *)
PyGet(d, k, default) ==
    IF d.t = "obj"
    THEN Ok(IF k \in DOMAIN d.v THEN d.v[k] ELSE default)
    ELSE IF d.t = "null"
    THEN Err("'NoneType' object has no attribute 'get'")
    ELSE Err("'" \o d.t \o "' object has no attribute 'get'")

(* d.get(k1, {}).get(k2, default) *)
PyGet2(d, k1, k2, default) ==
    LET r == PyGet(d, k1, EmptyDict)
    IN  IF r.ok THEN PyGet(r.v, k2, default) ELSE r

(* x[-n:], the last n entries instead of the first *)
PySlice_tail(x, n) ==
    IF x.t = "list"
    THEN Ok(List(SubSeq(x.v, Len(x.v) - Min(Len(x.v), n) + 1, Len(x.v))))
    ELSE IF x.t = "null"
    THEN Err("'NoneType' object is not subscriptable")
    ELSE Err("'" \o x.t \o "' object is not subscriptable")

(* x[:n] *)
PySlice(x, n) ==
    IF x.t = "list"
    THEN Ok(List(SubSeq(x.v, 1, Min(Len(x.v), n))))
    ELSE IF x.t = "null"
    THEN Err("'NoneType' object is not subscriptable")
    ELSE Err("'" \o x.t \o "' object is not subscriptable")

(* d.get(k1, {}).get(k2, [])[:n] *)
PyGet2Slice(d, k1, k2, n) ==
    LET r == PyGet2(d, k1, k2, EmptyList)
    IN  IF r.ok THEN PySlice(r.v, n) ELSE r

(* the first exception raised when the expressions are evaluated in order *)
RECURSIVE FirstErr(_)
FirstErr(rs) ==
    IF rs = <<>> THEN Ok(None)
    ELSE IF ~Head(rs).ok THEN Head(rs)
    ELSE FirstErr(Tail(rs))

(* bool(x) *)
Truthy(x) ==
    CASE x.t = "none" -> FALSE
      [] x.t = "null" -> FALSE
      [] x.t = "num" -> x.v # 0
      [] x.t = "str" -> x.v # ""
      [] x.t = "list" -> x.v # <<>>
      [] x.t = "obj" -> DOMAIN x.v # {}
      [] OTHER -> TRUE

(* TextContent(type="text", text=...) *)
Text(fmt, val) == [fmt |-> fmt, val |-> val]
TextContent(text) == [type |-> "text", text |-> text]

----------------------------------------------------------------------------
(* Upstream HTTP exchanges (Open-Meteo marine, forecast and geocoding)     *)

Garbage == [t |-> "garbage", v |-> 0]
Bool(b) == [t |-> "bool", v |-> b]

(* series whose entry at Python index i is base + i *)
Series(n, base) == [i \in 1..n |-> base + i - 1]

SeriesLens == (0..2) \cup ((HourlyLimit - 1)..MaxSeriesLen)

(* a JSON object with the optional members that are not Absent *)
MkBody(cur, hr, daily) ==
    Obj([k \in {x \in {"current", "hourly", "daily"} :
                  \/ x = "current" /\ cur # Absent
                  \/ x = "hourly" /\ hr # Absent
                  \/ x = "daily" /\ daily # Absent}
          |-> CASE k = "current" -> cur
                [] k = "hourly" -> hr
                [] OTHER -> daily])

FullMarineCurrent ==
    Obj([wave_height |-> Num(15), wave_direction |-> Num(270),
         wave_period |-> Num(12)])

MarineCurrents ==
    { Absent, Null, EmptyDict, FullMarineCurrent,
      Obj([wave_height |-> Null, wave_period |-> Num(9)]) }

MarineHourly(n) ==
    Obj([time |-> List(Series(n, 1000)),
         wave_height |-> List(Series(n, 100)),
         swell_wave_height |-> List(Series(n, 200)),
         wave_period |-> List(Series(n, 300))])

MarineHourlies ==
    { Absent, Null, EmptyDict,
      Obj([time |-> List(Series(2, 1000)), wave_height |-> Null]) }
    \cup { MarineHourly(n) : n \in SeriesLens }

MarineDaily == Obj([wave_height_max |-> List(<<20>>)])

MarineBodies ==
    { MkBody(c, MarineHourly(2), Absent) : c \in MarineCurrents }
    \cup { MkBody(FullMarineCurrent, h, MarineDaily) : h \in MarineHourlies }
    \cup { EmptyList }

FullWindCurrent ==
    Obj([wind_speed_10m |-> Num(18), wind_direction_10m |-> Num(90)])

WindCurrents ==
    { Absent, Null, EmptyDict, FullWindCurrent,
      Obj([wind_speed_10m |-> Null]) }

WindHourly(n) ==
    Obj([time |-> List(Series(n, 1000)),
         wind_speed_10m |-> List(Series(n, 400)),
         wind_direction_10m |-> List(Series(n, 500))])

WindHourlies ==
    { Absent, Null, EmptyDict, Obj([wind_speed_10m |-> Null]) }
    \cup { WindHourly(n) : n \in SeriesLens }

WindBodies ==
    { MkBody(c, WindHourly(2), Absent) : c \in WindCurrents }
    \cup { MkBody(FullWindCurrent, h, Absent) : h \in WindHourlies }

ErrorBody ==
    Obj([error |-> Bool(TRUE), reason |-> Str("Latitude must be in range")])

NetErrors == {"ConnectError", "ReadTimeout"}

(* what one GET can come to: an exception of the client, or a response *)
HttpOutcomes(bodies) ==
    { [net |-> e, status |-> 0, body |-> Garbage] : e \in NetErrors }
    \cup { [net |-> "ok", status |-> 200, body |-> b] :
             b \in bodies \cup {Garbage} }
    \cup { [net |-> "ok", status |-> s, body |-> b] :
             s \in {400, 503}, b \in {ErrorBody, Garbage} }

(* response.raise_for_status() *)
raise_for_status(o) ==
    IF o.status \in 200..299 THEN Ok(None)
    ELSE Err("HTTPStatusError")

(* response.json() *)
json(o) ==
    IF o.body.t = "garbage" THEN Err("JSONDecodeError") ELSE Ok(o.body)

MARINE_URL == "https://marine-api.open-meteo.com/v1/marine"
WIND_URL == "https://api.open-meteo.com/v1/forecast"
GEOCODING_URL == "https://geocoding-api.open-meteo.com/v1/search"

Request(url, params) == [url |-> url, params |-> params]

(* what an awaited client.get(...) came to *)
Exchange(o) == [t |-> "exchange", v |-> o]

(* the request did not give a 2xx response with a decodable body *)
Failed(x) ==
    /\ x.t = "exchange"
    /\ \/ x.v.net # "ok"
       \/ x.v.status \notin 200..299
       \/ x.v.body.t = "garbage"

----------------------------------------------------------------------------
(* mcp.py: the tool catalog *)

Tool(name, properties, required) ==
    [name |-> name, properties |-> properties, required |-> required]

(* the catalog advertising a tool that call_tool has no branch for *)
list_tools_extra ==
    << Tool("get_weather_forecast", {"latitude", "longitude"},
            <<"latitude", "longitude">>),
       Tool("search_surf_spot_info", {"spot_name", "location"},
            <<"spot_name">>),
       Tool("get_spot_coordinates", {"spot_name", "location"},
            <<"spot_name">>),
       Tool("get_tide_times", {"latitude", "longitude"},
            <<"latitude", "longitude">>) >>

(* lines 23-81 *)
list_tools ==
    << Tool("get_weather_forecast", {"latitude", "longitude"},
            <<"latitude", "longitude">>),
       Tool("search_surf_spot_info", {"spot_name", "location"},
            <<"spot_name">>),
       Tool("get_spot_coordinates", {"spot_name", "location"},
            <<"spot_name">>) >>

CatalogNames == { list_tools[i].name : i \in DOMAIN list_tools }

Required(name) ==
    LET d == CHOOSE d \in { list_tools[i] : i \in DOMAIN list_tools } :
                d.name = name
    IN  { d.required[i] : i \in DOMAIN d.required }

(* inputs of call_tool *)

ToolNameInputs ==
    CatalogNames \cup {"not_a_real_tool", "Get_Weather_Forecast"}

ArgKeys == {"latitude", "longitude", "spot_name", "location"}

ArgValues(k) ==
    CASE k = "latitude" -> {Num(0), Num(216641)}
      [] k = "longitude" -> {Num(0), Num(-1580533)}
      [] k = "spot_name" -> {Str("Pipeline")}
      [] OTHER -> {Str("Hawaii")}

ArgumentInputs ==
    UNION { { f \in [K -> UNION {ArgValues(k) : k \in K}] :
                \A k \in K : f[k] \in ArgValues(k) } : K \in SUBSET ArgKeys }

----------------------------------------------------------------------------
(* mcp.py: one invocation of call_tool.  pc is the coroutine's position:   *)
(* idle (not called), await_marine / await_wind / await_geocode (suspended *)
(* in client.get), done (returned result), raised (exception exc left      *)
(* call_tool).                                                             *)

IdleCall ==
    [pc |-> "idle", name |-> "", arguments |-> <<>>,
     lat |-> None, lon |-> None, spot_name |-> None, location |-> None,
     marine_response |-> None, wind_response |-> None,
     marine_data |-> None, wind_data |-> None,
     requests |-> <<>>, result |-> <<>>, exc |-> None]

Return(c, text) == [c EXCEPT !.pc = "done", !.result = <<TextContent(text)>>]

Raise(c, e) == [c EXCEPT !.pc = "raised", !.exc = e]

Get(c, url, params, pc) ==
    [c EXCEPT !.requests = Append(@, Request(url, params)), !.pc = pc]

WeatherParams(lat, lon) == [latitude |-> lat, longitude |-> lon]

(* except Exception as e, lines 168-172 *)
WeatherError(c, e) == Return(c, Text("Error fetching weather data: {e}", e))

(* lines 111-124: up to the first await *)
get_weather_forecast(c, lat, lon) ==
    Get([c EXCEPT !.lat = lat, !.lon = lon],
        MARINE_URL, WeatherParams(lat, lon), "await_marine")

(* lines 124-138: the marine response, up to the second await *)
get_weather_forecast_marine(c0, o) ==
    LET c == [c0 EXCEPT !.marine_response = Exchange(o)]
    IN
    IF o.net # "ok" THEN WeatherError(c, Str(o.net))
    ELSE IF ~raise_for_status(o).ok THEN WeatherError(c, raise_for_status(o).v)
    ELSE IF ~json(o).ok THEN WeatherError(c, json(o).v)
    ELSE Get([c EXCEPT !.marine_data = json(o).v],
             WIND_URL, WeatherParams(c.lat, c.lon), "await_wind")

(* lines 146-152 *)
CurrentConditionsExprs(marine_data, wind_data) ==
    << PyGet2(marine_data, "current", "wave_height", Null),
       PyGet2(marine_data, "current", "wave_direction", Null),
       PyGet2(marine_data, "current", "wave_period", Null),
       PyGet2(wind_data, "current", "wind_speed_10m", Null),
       PyGet2(wind_data, "current", "wind_direction_10m", Null) >>

(* lines 153-159 *)
HourlyForecastExprs(marine_data, wind_data) ==
    << PyGet2Slice(marine_data, "hourly", "time", HourlyLimit),
       PyGet2Slice(marine_data, "hourly", "wave_height", HourlyLimit),
       PyGet2Slice(marine_data, "hourly", "swell_wave_height", HourlyLimit),
       PyGet2Slice(wind_data, "hourly", "wind_speed_10m", HourlyLimit),
       PyGet2Slice(wind_data, "hourly", "wind_direction_10m", HourlyLimit) >>

(* lines 143-161: the result dict, or the first exception of its members *)
FormatResult(lat, lon, now, marine_data, wind_data) ==
    LET cur == CurrentConditionsExprs(marine_data, wind_data)
        hr == HourlyForecastExprs(marine_data, wind_data)
        daily == PyGet(marine_data, "daily", EmptyDict)
        err == FirstErr(cur \o hr \o <<daily>>)
    IN  IF ~err.ok THEN err
        ELSE Ok(Obj(
          [location |-> Obj([latitude |-> lat, longitude |-> lon]),
           timestamp |-> Num(now),
           current_conditions |->
              Obj([wave_height_m |-> cur[1].v,
                   wave_direction |-> cur[2].v,
                   wave_period_s |-> cur[3].v,
                   wind_speed_kmh |-> cur[4].v,
                   wind_direction |-> cur[5].v]),
           hourly_forecast |->
              Obj([times |-> hr[1].v,
                   wave_heights |-> hr[2].v,
                   swell_heights |-> hr[3].v,
                   wind_speeds |-> hr[4].v,
                   wind_directions |-> hr[5].v]),
           daily_summary |-> daily.v]))

(* lines 138-172: the wind response, the result and the return *)
get_weather_forecast_wind(c0, o, now) ==
    LET c == [c0 EXCEPT !.wind_response = Exchange(o)]
    IN
    IF o.net # "ok" THEN WeatherError(c, Str(o.net))
    ELSE IF ~raise_for_status(o).ok THEN WeatherError(c, raise_for_status(o).v)
    ELSE IF ~json(o).ok THEN WeatherError(c, json(o).v)
    ELSE LET c1 == [c EXCEPT !.wind_data = json(o).v]
             r == FormatResult(c.lat, c.lon, now, c.marine_data, json(o).v)
         IN  IF ~r.ok THEN WeatherError(c1, r.v)
             ELSE Return(c1, Text("json", r.v))

(* lines 175-182 *)
search_surf_spot_info(c, spot_name, location) ==
    Return([c EXCEPT !.spot_name = spot_name, !.location = location],
           Text("Search query prepared: '{spot_name} surf spot {location} best conditions optimal swell wind direction'",
                List(<<spot_name, location>>)))

GeocodeResult(i) ==
    Obj([name |-> Str("Pipeline"), latitude |-> Num(216641 + i),
         longitude |-> Num(-1580533 - i), country |-> Str("United States")])

GeocodeBodies ==
    { Null, EmptyDict, Obj([results |-> EmptyList]),
      Obj([results |-> List(<<Null>>)]) }
    \cup { Obj([results |-> List([i \in 1..n |-> GeocodeResult(i)])]) :
             n \in 1..MaxResults }

(* except Exception as e, lines 226-230 *)
GeocodeError(c, e) == Return(c, Text("Error getting coordinates: {e}", e))

(* lines 187-198: up to the await *)
get_spot_coordinates(c, spot_name, location) ==
    Get([c EXCEPT !.spot_name = spot_name, !.location = location],
        GEOCODING_URL,
        [name |-> List(<<spot_name, location>>), count |-> 5],
        "await_geocode")

(* lines 203-211 *)
TopResults(found) ==
    LET n == Min(Len(found), GeocodeTake)
    IN  IF \E i \in 1..n : found[i].t # "obj"
        THEN PyGet(found[CHOOSE i \in 1..n : found[i].t # "obj"
                            /\ \A j \in 1..(i - 1) : found[j].t = "obj"],
                   "name", Null)
        ELSE Ok(List([i \in 1..n |->
                Obj([name |-> PyGet(found[i], "name", Null).v,
                     latitude |-> PyGet(found[i], "latitude", Null).v,
                     longitude |-> PyGet(found[i], "longitude", Null).v,
                     country |-> PyGet(found[i], "country", Null).v,
                     admin1 |-> PyGet(found[i], "admin1", Null).v])]))

(* lines 198-230: the geocoding response and the return *)
get_spot_coordinates_response(c, o) ==
    IF o.net # "ok" THEN GeocodeError(c, Str(o.net))
    ELSE IF ~raise_for_status(o).ok THEN GeocodeError(c, raise_for_status(o).v)
    ELSE IF ~json(o).ok THEN GeocodeError(c, json(o).v)
    ELSE LET found == PyGet(json(o).v, "results", Null)
         IN  IF ~found.ok THEN GeocodeError(c, found.v)
             ELSE IF ~Truthy(found.v)
             THEN Return(c, Text("No coordinates found for {spot_name} {location}",
                                 List(<<c.spot_name, c.location>>)))
             ELSE IF ~TopResults(found.v.v).ok
             THEN GeocodeError(c, TopResults(found.v.v).v)
             ELSE Return(c, Text("json",
                    Obj([query |-> List(<<c.spot_name, c.location>>),
                         results |-> TopResults(found.v.v).v])))

(* the fall-through raising instead of answering *)
UnknownTool_raises(c, name) == Raise(c, Str("ValueError: Unknown tool"))

(* line 106 *)
UnknownTool(c, name) == Return(c, Text("Unknown tool: {name}", Str(name)))

(* arguments[k] *)
Subscript(arguments, k) ==
    IF k \in DOMAIN arguments THEN Ok(arguments[k])
    ELSE Err("KeyError: '" \o k \o "'")

(* arguments.get("location", "") *)
LocationOf(arguments) ==
    IF "location" \in DOMAIN arguments THEN arguments["location"] ELSE Str("")

(* lines 84-106 *)
call_tool(c0, name, arguments) ==
    LET c == [c0 EXCEPT !.name = name, !.arguments = arguments]
        req == << Subscript(arguments, "latitude"),
                  Subscript(arguments, "longitude") >>
        spot == Subscript(arguments, "spot_name")
    IN  IF name = "get_weather_forecast"
        THEN IF ~FirstErr(req).ok THEN Raise(c, FirstErr(req).v)
             ELSE get_weather_forecast(c, req[1].v, req[2].v)
        ELSE IF name = "search_surf_spot_info"
        THEN IF ~spot.ok THEN Raise(c, spot.v)
             ELSE search_surf_spot_info(c, spot.v, LocationOf(arguments))
        ELSE IF name = "get_spot_coordinates"
        THEN IF ~spot.ok THEN Raise(c, spot.v)
             ELSE get_spot_coordinates(c, spot.v, LocationOf(arguments))
        ELSE UnknownTool(c, name)

----------------------------------------------------------------------------
(* Actions of the MCP server *)

CallTool ==
    /\ program = "mcp"
    /\ call.pc = "idle"
    /\ \E name \in ToolNameInputs, arguments \in ArgumentInputs :
          call' = call_tool(call, name, arguments)
    /\ UNCHANGED <<program, context_store, ui, calls, listed>>

MarineResponse ==
    /\ program = "mcp"
    /\ call.pc = "await_marine"
    /\ \E o \in HttpOutcomes(MarineBodies) :
          call' = get_weather_forecast_marine(call, o)
    /\ UNCHANGED <<program, context_store, ui, calls, listed>>

WindResponse ==
    /\ program = "mcp"
    /\ call.pc = "await_wind"
    /\ \E o \in HttpOutcomes(WindBodies), now \in 0..MaxClock :
          call' = get_weather_forecast_wind(call, o, now)
    /\ UNCHANGED <<program, context_store, ui, calls, listed>>

GeocodeResponse ==
    /\ program = "mcp"
    /\ call.pc = "await_geocode"
    /\ \E o \in HttpOutcomes(GeocodeBodies) :
          call' = get_spot_coordinates_response(call, o)
    /\ UNCHANGED <<program, context_store, ui, calls, listed>>

(* a tools/list request: the handler returns the catalog *)
ListTools ==
    /\ program = "mcp"
    /\ listed' = list_tools
    /\ UNCHANGED <<program, context_store, ui, call, calls>>

NextMcp == CallTool \/ MarineResponse \/ WindResponse \/ GeocodeResponse
              \/ ListTools

----------------------------------------------------------------------------
(* mcp.py: two invocations of call_tool for get_weather_forecast running   *)
(* on the server's event loop; they interleave at their awaits.            *)

CallIds == {1, 2}

ConcArgumentInputs ==
    { a \in ArgumentInputs : DOMAIN a = {"latitude", "longitude"} }

(* the service answers for the coordinates of the request it is sent *)
ConcMarineBody(params) ==
    MkBody(Obj([wave_height |-> Num(params.latitude.v + 15),
                wave_direction |-> Num(params.longitude.v + 270)]),
           Obj([time |-> List(Series(2, 1000)),
                wave_height |-> List(Series(2, params.latitude.v + 100)),
                swell_wave_height |->
                   List(Series(2, params.longitude.v + 200))]),
           Absent)

ConcWindBody(params) ==
    MkBody(Obj([wind_speed_10m |-> Num(params.latitude.v + 18),
                wind_direction_10m |-> Num(params.longitude.v + 90)]),
           Obj([wind_speed_10m |-> List(Series(2, params.latitude.v + 400)),
                wind_direction_10m |->
                   List(Series(2, params.longitude.v + 500))]),
           Absent)

(* lat and lon living in one module-level slot that the invocation        *)
(* started last has overwritten                                            *)
Frame_shared(cs, i) ==
    LET j == CHOOSE j \in DOMAIN cs :
                /\ cs[j].pc # "idle"
                /\ \A k \in DOMAIN cs : cs[k].pc # "idle" => k <= j
    IN  [cs[i] EXCEPT !.lat = cs[j].lat, !.lon = cs[j].lon]

(* lines 109-140: the parameters and locals of invocation i's coroutine *)
Frame(cs, i) == cs[i]

LastRequest(c) == c.requests[Len(c.requests)]

ConcCallTool(i) ==
    /\ program = "mcp"
    /\ calls[i].pc = "idle"
    /\ \E arguments \in ConcArgumentInputs :
          calls' = [calls EXCEPT
                      ![i] = call_tool(calls[i], "get_weather_forecast",
                                       arguments)]
    /\ UNCHANGED <<program, context_store, ui, call, listed>>

ConcMarineResponse(i) ==
    /\ program = "mcp"
    /\ calls[i].pc = "await_marine"
    /\ \E o \in HttpOutcomes({ConcMarineBody(LastRequest(calls[i]).params)}) :
          calls' = [calls EXCEPT
                      ![i] = get_weather_forecast_marine(Frame(calls, i), o)]
    /\ UNCHANGED <<program, context_store, ui, call, listed>>

ConcWindResponse(i) ==
    /\ program = "mcp"
    /\ calls[i].pc = "await_wind"
    /\ \E o \in HttpOutcomes({ConcWindBody(LastRequest(calls[i]).params)}),
          now \in 0..MaxClock :
          calls' = [calls EXCEPT
                      ![i] = get_weather_forecast_wind(Frame(calls, i), o,
                                                       now)]
    /\ UNCHANGED <<program, context_store, ui, call, listed>>

NextConc ==
    \E i \in CallIds :
        ConcCallTool(i) \/ ConcMarineResponse(i) \/ ConcWindResponse(i)

----------------------------------------------------------------------------
(* gradio.py: the report pipeline *)

SURF_SPOTS ==
    [s \in {"Bells Beach, Australia", "Pipeline, Hawaii",
            "Jeffreys Bay, South Africa", "Teahupo'o, Tahiti",
            "Mavericks, California", "Cloudbreak, Fiji", "Uluwatu, Bali"} |->
       CASE s = "Bells Beach, Australia" -> [lat |-> -383667, lon |-> 1442833]
         [] s = "Pipeline, Hawaii" -> [lat |-> 216641, lon |-> -1580533]
         [] s = "Jeffreys Bay, South Africa" -> [lat |-> -340546, lon |-> 249096]
         [] s = "Teahupo'o, Tahiti" -> [lat |-> -178744, lon |-> -1492661]
         [] s = "Mavericks, California" -> [lat |-> 374936, lon |-> -1224967]
         [] s = "Cloudbreak, Fiji" -> [lat |-> -177542, lon |-> 1770954]
         [] OTHER -> [lat |-> -88293, lon |-> 1150846]]

(* inputs of sync_generate_report: the dropdown value and the two textboxes *)

SpotInputs == DOMAIN SURF_SPOTS \cup {"Kilcunda", ""}
LatTexts == {Str(""), Str("0"), Str("-17.5"), Str("abc")}
LonTexts == {Str(""), Str("0.0"), Str(" 149.25 "), Str(" ")}

(* float(s) on the texts above: surrounding blanks are stripped, a text    *)
(* that is not a number raises ValueError                                  *)
PyFloat(s) ==
    CASE s.v = "0" -> Ok(Num(0))
      [] s.v = "0.0" -> Ok(Num(0))
      [] s.v = "-17.5" -> Ok(Num(-175000))
      [] s.v = " 149.25 " -> Ok(Num(1492500))
      [] OTHER -> Err("ValueError: could not convert string to float: '"
                      \o s.v \o "'")

(* outcomes of client.messages.create(...) and response.content[0].text *)
GenOutcomes ==
    { Ok(Str("Overall Rating: 7/10")),
      Err("'Client' object has no attribute 'messages'"),
      Err("ConnectionError"),
      Err("list index out of range") }

(* pc: idle, await_marine / await_wind (suspended in http_client.get),     *)
(* generating (inside client.messages.create), done (returned result),     *)
(* raised (exception exc left sync_generate_report)                        *)
IdleUi ==
    [pc |-> "idle", spot |-> "", lat_text |-> None, lon_text |-> None,
     custom_lat |-> None, custom_lon |-> None, lat |-> None, lon |-> None,
     location_info |-> None,
     marine_response |-> None, wind_response |-> None,
     marine_data |-> None, wind_data |-> None,
     prompt |-> None, gen_calls |-> 0, gen_reply |-> None,
     surf_report |-> None,
     requests |-> <<>>, result |-> <<>>, exc |-> None]

EmptyString == Text("", None)

UiReturn(u, narrative, summary) ==
    [u EXCEPT !.pc = "done", !.result = <<narrative, summary>>]

(* except Exception as e, lines 153-154 *)
UiError(u, e) == UiReturn(u, Text("[x] Error: {e}", e), EmptyString)

(* lines 29-41: get_marine_weather up to the first await *)
get_marine_weather(u) ==
    [u EXCEPT !.requests =
                 Append(@, Request(MARINE_URL, WeatherParams(u.lat, u.lon))),
              !.pc = "await_marine"]

(* an unknown name falling back to the dropdown's default spot *)
ResolveCoordinates_default(spot_name, custom_lat, custom_lon) ==
    LET name == IF spot_name \in DOMAIN SURF_SPOTS THEN spot_name
                ELSE "Bells Beach, Australia"
    IN  IF Truthy(custom_lat) /\ Truthy(custom_lon)
        THEN Ok([lat |-> custom_lat, lon |-> custom_lon,
                 location_info |-> Text("Custom Location: {lat}, {lon}",
                                        List(<<custom_lat, custom_lon>>))])
        ELSE Ok([lat |-> Num(SURF_SPOTS[name].lat),
                 lon |-> Num(SURF_SPOTS[name].lon),
                 location_info |-> Text("{spot_name} Coordinates: {lat}, {lon}",
                                        List(<<Str(name),
                                               Num(SURF_SPOTS[name].lat),
                                               Num(SURF_SPOTS[name].lon)>>))])

(* lines 122-130: the coordinates and the location text, or not found *)
ResolveCoordinates(spot_name, custom_lat, custom_lon) ==
    IF Truthy(custom_lat) /\ Truthy(custom_lon)
    THEN Ok([lat |-> custom_lat, lon |-> custom_lon,
             location_info |-> Text("Custom Location: {lat}, {lon}",
                                    List(<<custom_lat, custom_lon>>))])
    ELSE IF spot_name \in DOMAIN SURF_SPOTS
    THEN Ok([lat |-> Num(SURF_SPOTS[spot_name].lat),
             lon |-> Num(SURF_SPOTS[spot_name].lon),
             location_info |-> Text("{spot_name} Coordinates: {lat}, {lon}",
                                    List(<<Str(spot_name),
                                           Num(SURF_SPOTS[spot_name].lat),
                                           Num(SURF_SPOTS[spot_name].lon)>>))])
    ELSE Err("Spot not found")

SpotNotFound ==
    Text("[x] Spot not found. Please select from the dropdown or enter custom coordinates.",
         None)

(* lines 116-133: up to the first await *)
generate_surf_report(u0, spot_name, custom_lat, custom_lon) ==
    LET u == [u0 EXCEPT !.spot = spot_name, !.custom_lat = custom_lat,
                        !.custom_lon = custom_lon]
        r == ResolveCoordinates(spot_name, custom_lat, custom_lon)
    IN  IF ~r.ok THEN UiReturn(u, SpotNotFound, EmptyString)
        ELSE get_marine_weather(
               [u EXCEPT !.lat = r.v.lat, !.lon = r.v.lon,
                         !.location_info = r.v.location_info])

(* lines 157-161 *)
sync_generate_report(u0, spot, lat, lon) ==
    LET u == [u0 EXCEPT !.lat_text = lat, !.lon_text = lon, !.spot = spot]
        custom_lat == IF Truthy(lat) THEN PyFloat(lat) ELSE Ok(None)
        custom_lon == IF Truthy(lon) THEN PyFloat(lon) ELSE Ok(None)
        err == FirstErr(<<custom_lat, custom_lon>>)
    IN  IF ~err.ok THEN [u EXCEPT !.pc = "raised", !.exc = err.v]
        ELSE generate_surf_report(u, spot, custom_lat.v, custom_lon.v)

(* lines 41-53: the marine response, up to the second await *)
get_marine_weather_marine(u0, o) ==
    LET u == [u0 EXCEPT !.marine_response = Exchange(o)]
    IN
    IF o.net # "ok" THEN UiError(u, Str(o.net))
    ELSE IF ~json(o).ok THEN UiError(u, json(o).v)
    ELSE [u EXCEPT !.marine_data = json(o).v,
                   !.requests =
                      Append(@, Request(WIND_URL, WeatherParams(u.lat, u.lon))),
                   !.pc = "await_wind"]

(* lines 66-89: the values the prompt is rendered from *)
PromptExprs(marine, wind) ==
    LET hourly_marine == PyGet(marine, "hourly", EmptyDict)
        hourly_wind == PyGet(wind, "hourly", EmptyDict)
        Sl(h, k) == IF ~h.ok THEN h
                    ELSE IF ~PyGet(h.v, k, EmptyList).ok
                    THEN PyGet(h.v, k, EmptyList)
                    ELSE PySlice(PyGet(h.v, k, EmptyList).v, HourlyLimit)
    IN  << PyGet2(marine, "current", "wave_height", NA),
           PyGet2(marine, "current", "wave_period", NA),
           PyGet2(wind, "current", "wind_speed_10m", NA),
           PyGet2(wind, "current", "wind_direction_10m", NA),
           hourly_marine,
           hourly_wind,
           Sl(hourly_marine, "wave_height"),
           Sl(hourly_marine, "swell_wave_height"),
           Sl(hourly_marine, "wave_period"),
           Sl(hourly_wind, "wind_speed_10m"),
           Sl(hourly_wind, "wind_direction_10m") >>

(* lines 76-98 *)
Prompt(spot_name, marine, wind) ==
    LET e == PromptExprs(marine, wind)
    IN  IF ~FirstErr(e).ok THEN FirstErr(e)
        ELSE Ok(Obj([spot_name |-> Str(spot_name),
                     current_wave |-> e[1].v,
                     current_period |-> e[2].v,
                     current_wind |-> e[3].v,
                     current_wind_dir |-> e[4].v,
                     wave_heights |-> e[7].v,
                     swell_heights |-> e[8].v,
                     wave_periods |-> e[9].v,
                     wind_speeds |-> e[10].v,
                     wind_directions |-> e[11].v]))

(* lines 53-59 and 136, 62-102: the wind response, then                    *)
(* analyze_surf_conditions up to the call of the model                     *)
get_marine_weather_wind(u0, o) ==
    LET u == [u0 EXCEPT !.wind_response = Exchange(o)]
    IN
    IF o.net # "ok" THEN UiError(u, Str(o.net))
    ELSE IF ~json(o).ok THEN UiError(u, json(o).v)
    ELSE LET u1 == [u EXCEPT !.wind_data = json(o).v]
             p == Prompt(u.spot, u.marine_data, json(o).v)
         IN  IF ~p.ok THEN UiError(u1, p.v)
             ELSE [u1 EXCEPT !.prompt = p.v, !.gen_calls = @ + 1,
                             !.pc = "generating"]

(* what client.messages.create(...) came to *)
Reply(g) == [t |-> "reply", v |-> g]

(* the call of the model without its try/except *)
analyze_surf_conditions_uncaught(g) ==
    IF g.ok THEN Ok(Text("{response.content[0].text}", g.v))
    ELSE g

(* lines 100-113: the reply of the model, or the caught exception *)
analyze_surf_conditions(g) ==
    IF g.ok THEN Ok(Text("{response.content[0].text}", g.v))
    ELSE Ok(Text("Error generating surf report: {e}", g.v))

(* lines 139-149 *)
WeatherSummary(marine, wind) ==
    LET current == PyGet(marine, "current", EmptyDict)
        current_wind == PyGet(wind, "current", EmptyDict)
        F(d, k) == IF d.ok THEN PyGet(d.v, k, NA) ELSE d
        e == << current, current_wind,
                F(current, "wave_height"), F(current, "wave_period"),
                F(current, "wave_direction"),
                F(current_wind, "wind_speed_10m"),
                F(current_wind, "wind_direction_10m") >>
    IN  IF ~FirstErr(e).ok THEN FirstErr(e)
        ELSE Ok(Text("Raw Weather Data: Wave Height: {}m Wave Period: {}s Wave Direction: {} Wind Speed: {} km/h Wind Direction: {}",
                     List(<<e[3].v, e[4].v, e[5].v, e[6].v, e[7].v>>)))

(* lines 136-154: from the model's reply to the return *)
generate_surf_report_finish(u0, g) ==
    LET u == [u0 EXCEPT !.gen_reply = Reply(g)]
        surf_report == analyze_surf_conditions(g)
        u1 == [u EXCEPT !.surf_report = surf_report.v]
        weather_summary == WeatherSummary(u.marine_data, u.wind_data)
    IN  IF ~surf_report.ok THEN UiError(u, surf_report.v)
        ELSE IF ~weather_summary.ok THEN UiError(u1, weather_summary.v)
        ELSE UiReturn(u1, u1.surf_report, weather_summary.v)

----------------------------------------------------------------------------
(* Actions of the Gradio application *)

SyncGenerateReport ==
    /\ program = "gradio"
    /\ ui.pc = "idle"
    /\ \E spot \in SpotInputs, lat \in LatTexts, lon \in LonTexts :
          ui' = sync_generate_report(ui, spot, lat, lon)
    /\ UNCHANGED <<program, context_store, call, calls, listed>>

UiMarineResponse ==
    /\ program = "gradio"
    /\ ui.pc = "await_marine"
    /\ \E o \in HttpOutcomes(MarineBodies) :
          ui' = get_marine_weather_marine(ui, o)
    /\ UNCHANGED <<program, context_store, call, calls, listed>>

UiWindResponse ==
    /\ program = "gradio"
    /\ ui.pc = "await_wind"
    /\ \E o \in HttpOutcomes(WindBodies) :
          ui' = get_marine_weather_wind(ui, o)
    /\ UNCHANGED <<program, context_store, call, calls, listed>>

ReportGenerator ==
    /\ program = "gradio"
    /\ ui.pc = "generating"
    /\ \E g \in GenOutcomes : ui' = generate_surf_report_finish(ui, g)
    /\ UNCHANGED <<program, context_store, call, calls, listed>>

NextUi == SyncGenerateReport \/ UiMarineResponse \/ UiWindResponse
             \/ ReportGenerator

----------------------------------------------------------------------------
(* Specifications: the state after either program has started *)

InitMcp ==
    /\ program = "mcp"
    /\ call = IdleCall
    /\ context_store = <<>>
    /\ ui = IdleUi
    /\ calls = [i \in CallIds |-> IdleCall]
    /\ listed = <<>>

InitUi ==
    /\ program = "gradio"
    /\ call = IdleCall
    /\ context_store = <<>>
    /\ ui = IdleUi
    /\ calls = [i \in CallIds |-> IdleCall]
    /\ listed = <<>>

Init == InitMcp \/ InitUi

Next == NextMcp \/ NextUi

SpecMcp == InitMcp /\ [][NextMcp]_vars

SpecUi == InitUi /\ [][NextUi]_vars

Spec == Init /\ [][Next]_vars

SpecConc == InitMcp /\ [][NextConc]_vars

----------------------------------------------------------------------------
(* Properties *)

WEATHER == "get_weather_forecast"

(* a returned text that reports a failure rather than a result *)
IsErrorText(text) ==
    text.fmt \in {"Unknown tool: {name}", "Error fetching weather data: {e}",
                  "Error getting coordinates: {e}"}

Returned(c) == c.pc = "done" /\ Len(c.result) = 1 /\ c.result[1].type = "text"

C2_MissingArgument ==
    (/\ call.pc # "idle"
     /\ call.name \in CatalogNames
     /\ ~(Required(call.name) \subseteq DOMAIN call.arguments)) =>
        /\ Returned(call)
        /\ IsErrorText(call.result[1].text)
        /\ call.requests = <<>>

(* the current-conditions value the document must carry for a source       *)
UpstreamCurrent(data, k) ==
    IF data.t = "obj" /\ "current" \in DOMAIN data.v
       /\ data.v["current"].t = "obj" /\ k \in DOMAIN data.v["current"].v
    THEN data.v["current"].v[k]
    ELSE Null

(* C3: when the marine request succeeded and the wind request failed,      *)
(* get_weather_forecast returns a forecast document, not an error          *)
(* response, with the marine values in it and the wind fields null.        *)
C3_PartialFailure ==
    (/\ call.pc = "done"
     /\ call.name = WEATHER
     /\ call.marine_response.t = "exchange"
     /\ ~Failed(call.marine_response)
     /\ Failed(call.wind_response)) =>
        /\ Returned(call)
        /\ call.result[1].text.fmt = "json"
        /\ LET cc == call.result[1].text.val.v["current_conditions"].v
           IN  /\ cc["wave_height_m"] =
                     UpstreamCurrent(call.marine_data, "wave_height")
               /\ cc["wind_speed_kmh"] = Null
               /\ cc["wind_direction"] = Null

IsUiError(text) == text.fmt = "[x] Error: {e}"

(* C4: when both upstream requests fail, generate_surf_report returns an   *)
(* error narrative with an empty summary and the Report Generator is       *)
(* never invoked.                                                          *)
C4_BothFail ==
    (/\ ui.pc \in {"generating", "done"}
     /\ Failed(ui.marine_response)
     /\ Failed(ui.wind_response)) =>
        /\ ui.pc = "done"
        /\ IsUiError(ui.result[1])
        /\ ui.result[2] = EmptyString
        /\ ui.gen_calls = 0

(* C5: whenever both an explicit latitude and an explicit longitude are    *)
(* supplied, the resolved coordinates are exactly the supplied pair.       *)
C5_ExplicitCoordinates ==
    (/\ ui.pc \notin {"idle", "raised"}
     /\ ui.custom_lat # None
     /\ ui.custom_lon # None) =>
        /\ ui.lat = ui.custom_lat
        /\ ui.lon = ui.custom_lon

(* C6: with no explicit coordinates, a spot name outside SURF_SPOTS gives  *)
(* a non-empty error narrative and an empty summary with no request and    *)
(* no Report Generator call; a name of the table resolves to its tabled    *)
(* coordinates, and the only requests are the weather requests for them.   *)
C6_SpotResolution ==
    (/\ ui.pc \notin {"idle", "raised"}
     /\ ui.custom_lat = None
     /\ ui.custom_lon = None) =>
        IF ui.spot \notin DOMAIN SURF_SPOTS
        THEN /\ ui.pc = "done"
             /\ ui.result[1].fmt # ""
             /\ ui.result[1].fmt # "{response.content[0].text}"
             /\ ui.result[2] = EmptyString
             /\ ui.requests = <<>>
             /\ ui.gen_calls = 0
        ELSE /\ ui.lat = Num(SURF_SPOTS[ui.spot].lat)
             /\ ui.lon = Num(SURF_SPOTS[ui.spot].lon)
             /\ \A i \in DOMAIN ui.requests :
                   /\ ui.requests[i].url \in {MARINE_URL, WIND_URL}
                   /\ ui.requests[i].params.latitude.v = SURF_SPOTS[ui.spot].lat
                   /\ ui.requests[i].params.longitude.v = SURF_SPOTS[ui.spot].lon

C6_Witness ==
    /\ ui.pc = "done"
    /\ ui.spot = "Kilcunda"
    /\ ui.custom_lat = None
    /\ ui.custom_lon = None
    /\ ui.result[1] = SpotNotFound

(* the upstream hourly series k of a decoded body, [] when it is missing   *)
UpstreamSeries(data, k) ==
    IF "hourly" \in DOMAIN data.v /\ k \in DOMAIN data.v["hourly"].v
    THEN data.v["hourly"].v[k].v
    ELSE <<>>

(* out is the first min(Len(up), 24) entries of up, in order *)
IsPrefix24(out, up) ==
    /\ Len(out) = IF Len(up) < 24 THEN Len(up) ELSE 24
    /\ \A i \in 1..Len(out) : out[i] = up[i]

(* C7: every hourly series of a forecast document, and of the prompt, has  *)
(* exactly min(n, 24) entries, entry i being upstream entry i, for the     *)
(* marine-sourced and the wind-sourced series independently.               *)
C7_HourlyTruncation ==
    /\ (Returned(call) /\ call.name = WEATHER
        /\ call.result[1].text.fmt = "json") =>
          LET hf == call.result[1].text.val.v["hourly_forecast"].v
              m == call.marine_data
              w == call.wind_data
          IN  /\ IsPrefix24(hf["times"].v, UpstreamSeries(m, "time"))
              /\ IsPrefix24(hf["wave_heights"].v,
                            UpstreamSeries(m, "wave_height"))
              /\ IsPrefix24(hf["swell_heights"].v,
                            UpstreamSeries(m, "swell_wave_height"))
              /\ IsPrefix24(hf["wind_speeds"].v,
                            UpstreamSeries(w, "wind_speed_10m"))
              /\ IsPrefix24(hf["wind_directions"].v,
                            UpstreamSeries(w, "wind_direction_10m"))
    /\ (ui.prompt.t = "obj") =>
          LET pr == ui.prompt.v
              m == ui.marine_data
              w == ui.wind_data
          IN  /\ IsPrefix24(pr["wave_heights"].v,
                            UpstreamSeries(m, "wave_height"))
              /\ IsPrefix24(pr["swell_heights"].v,
                            UpstreamSeries(m, "swell_wave_height"))
              /\ IsPrefix24(pr["wave_periods"].v,
                            UpstreamSeries(m, "wave_period"))
              /\ IsPrefix24(pr["wind_speeds"].v,
                            UpstreamSeries(w, "wind_speed_10m"))
              /\ IsPrefix24(pr["wind_directions"].v,
                            UpstreamSeries(w, "wind_direction_10m"))

C7_Witness ==
    /\ Returned(call)
    /\ call.name = WEATHER
    /\ call.result[1].text.fmt = "json"
    /\ Len(UpstreamSeries(call.marine_data, "wave_height")) = 30
    /\ Len(UpstreamSeries(call.wind_data, "wind_speed_10m")) = 23
    /\ Len(call.result[1].text.val.v["hourly_forecast"].v["wave_heights"].v)
          = 24

(* C8: when both requests return a 2xx response with a decodable JSON      *)
(* object, get_weather_forecast returns a document in which each           *)
(* current-conditions key holds the upstream value, or null when the       *)
(* upstream omits it or gives null, a null "current" or "hourly" included. *)
C8_NullFields ==
    (/\ call.pc = "done"
     /\ call.name = WEATHER
     /\ call.marine_response.t = "exchange"
     /\ call.wind_response.t = "exchange"
     /\ ~Failed(call.marine_response)
     /\ ~Failed(call.wind_response)
     /\ call.marine_data.t = "obj"
     /\ call.wind_data.t = "obj") =>
        /\ Returned(call)
        /\ call.result[1].text.fmt = "json"
        /\ LET cc == call.result[1].text.val.v["current_conditions"].v
               m == call.marine_data
               w == call.wind_data
           IN  /\ DOMAIN cc = {"wave_height_m", "wave_direction",
                               "wave_period_s", "wind_speed_kmh",
                               "wind_direction"}
               /\ cc["wave_height_m"] = UpstreamCurrent(m, "wave_height")
               /\ cc["wave_direction"] = UpstreamCurrent(m, "wave_direction")
               /\ cc["wave_period_s"] = UpstreamCurrent(m, "wave_period")
               /\ cc["wind_speed_kmh"] = UpstreamCurrent(w, "wind_speed_10m")
               /\ cc["wind_direction"] =
                     UpstreamCurrent(w, "wind_direction_10m")

(* the value the summary shows for a current reading, N/A when missing     *)
SummaryValue(data, k) ==
    IF "current" \in DOMAIN data.v /\ k \in DOMAIN data.v["current"].v
    THEN data.v["current"].v[k]
    ELSE NA

(* C9: once the Report Generator has been invoked and has failed,          *)
(* generate_surf_report returns a narrative reporting the generation       *)
(* error together with the non-empty summary of the fetched current        *)
(* conditions; nothing is raised.                                          *)
C9_DegradedReport ==
    (ui.gen_reply.t = "reply" /\ ~ui.gen_reply.v.ok) =>
        /\ ui.pc = "done"
        /\ ui.exc = None
        /\ ui.result[1] = Text("Error generating surf report: {e}",
                               ui.gen_reply.v.v)
        /\ ui.result[2] # EmptyString
        /\ ui.result[2].val =
              List(<< SummaryValue(ui.marine_data, "wave_height"),
                      SummaryValue(ui.marine_data, "wave_period"),
                      SummaryValue(ui.marine_data, "wave_direction"),
                      SummaryValue(ui.wind_data, "wind_speed_10m"),
                      SummaryValue(ui.wind_data, "wind_direction_10m") >>)

C9_Witness ==
    /\ ui.pc = "done"
    /\ ui.gen_calls = 1
    /\ ui.gen_reply = Reply(Err("ConnectionError"))
    /\ ui.marine_data = MkBody(FullMarineCurrent, MarineHourly(2), Absent)
    /\ ui.result[2].val.v[1] = Num(15)

(* C10: no exception propagates out of sync_generate_report, whatever the  *)
(* spot, the latitude and longitude texts and the upstream outcomes.       *)
C10_NoEscape == ui.pc # "raised"

(* C11: under any interleaving of two get_weather_forecast invocations,    *)
(* each returned document carries the invocation's own coordinates, every  *)
(* request it issued carries them, and its current and hourly fields are   *)
(* those of its own two upstream responses; context_store is never         *)
(* written.                                                                *)
C11_NoCrossContamination ==
    /\ context_store = <<>>
    /\ \A i \in CallIds :
         LET c == calls[i]
         IN  /\ \A r \in DOMAIN c.requests :
                   /\ c.requests[r].params.latitude = c.arguments["latitude"]
                   /\ c.requests[r].params.longitude = c.arguments["longitude"]
             /\ (Returned(c) /\ c.result[1].text.fmt = "json") =>
                   LET doc == c.result[1].text.val.v
                       cc == doc["current_conditions"].v
                       hf == doc["hourly_forecast"].v
                       m == c.marine_response.v.body
                       w == c.wind_response.v.body
                       la == c.arguments["latitude"].v
                       lo == c.arguments["longitude"].v
                   IN  /\ doc["location"] =
                             Obj([latitude |-> c.arguments["latitude"],
                                  longitude |-> c.arguments["longitude"]])
                       /\ cc["wave_height_m"] = UpstreamCurrent(m, "wave_height")
                       /\ cc["wave_height_m"] = Num(la + 15)
                       /\ cc["wave_direction"] = Num(lo + 270)
                       /\ cc["wind_speed_kmh"] = Num(la + 18)
                       /\ cc["wind_direction"] = Num(lo + 90)
                       /\ hf["wave_heights"].v = UpstreamSeries(m, "wave_height")
                       /\ hf["wave_heights"].v = Series(2, la + 100)
                       /\ hf["swell_heights"].v = Series(2, lo + 200)
                       /\ hf["wind_speeds"].v = Series(2, la + 400)
                       /\ hf["wind_directions"].v = Series(2, lo + 500)

C11_Witness ==
    /\ \A i \in CallIds :
          Returned(calls[i]) /\ calls[i].result[1].text.fmt = "json"
    /\ calls[1].arguments["latitude"] # calls[2].arguments["latitude"]
    /\ calls[1].arguments["longitude"] # calls[2].arguments["longitude"]
    /\ calls[1].result[1].text.val.v["current_conditions"]
          # calls[2].result[1].text.val.v["current_conditions"]

(* C12: every aggregation run issues both the marine and the wind request  *)
(* and both have completed, successfully or not, when the result is        *)
(* produced; a failure of one does not keep the other from being issued.   *)
C12_FanOutJoin ==
    (call.name = WEATHER /\ call.pc = "done") =>
        /\ \E r \in DOMAIN call.requests : call.requests[r].url = MARINE_URL
        /\ \E r \in DOMAIN call.requests : call.requests[r].url = WIND_URL
        /\ call.marine_response.t = "exchange"
        /\ call.wind_response.t = "exchange"

(* call_tool answered with the unknown-tool text instead of a handler *)
IsUnknownResponse(c) ==
    Returned(c) /\ c.result[1].text.fmt = "Unknown tool: {name}"

(* C13: list_tools returns three descriptors with pairwise distinct names, *)
(* the same on every call; a name is advertised exactly when call_tool     *)
(* routes it to a handler and not to the unknown-tool response, and each   *)
(* advertised name reaches its own handler.                                *)
C13_CatalogDispatch ==
    /\ listed # <<>> =>
          /\ Len(listed) = 3
          /\ \A i, j \in DOMAIN listed :
                listed[i].name = listed[j].name => i = j
          /\ { listed[i].name : i \in DOMAIN listed } =
                {"get_weather_forecast", "search_surf_spot_info",
                 "get_spot_coordinates"}
    /\ call.pc # "idle" =>
          /\ (\E i \in DOMAIN list_tools : list_tools[i].name = call.name)
                <=> ~IsUnknownResponse(call)
          /\ (call.name = "get_weather_forecast" /\ call.pc # "raised") =>
                call.requests[1].url = MARINE_URL
          /\ (call.name = "search_surf_spot_info" /\ call.pc # "raised") =>
                /\ Returned(call)
                /\ call.requests = <<>>
                /\ call.result[1].text.val =
                      List(<<call.arguments["spot_name"],
                             LocationOf(call.arguments)>>)
          /\ (call.name = "get_spot_coordinates" /\ call.pc # "raised") =>
                call.requests[1].url = GEOCODING_URL

C13_Witness ==
    /\ listed # <<>>
    /\ listed[3].name = "get_spot_coordinates"
    /\ call.name = "get_spot_coordinates"
    /\ call.pc = "await_geocode"

====
